---- MODULE Spec2Model ----
(***************************************************************************)
(* A model of socketlabs-rs: the Message builder (src/src/message.rs), the *)
(* Request envelope and its send (src/src/request.rs), the classification  *)
(* of transport errors (src/src/error.rs) and the decoding of the          *)
(* provider's response (src/src/response.rs).                              *)
(*                                                                         *)
(* Option<T> is a sequence of length at most one: None is <<>> and Some(v) *)
(* is <<v>>.  Result<T, E> is a record [ok, v].  A JSON value is a record  *)
(* with its type tag in t and one field per type; a JSON object is the     *)
(* sequence of its <<key, value>> pairs in document order.  An address is  *)
(* the sequence of its characters.                                         *)
(***************************************************************************)
EXTENDS Naturals, Integers, Sequences, FiniteSets, TLC

VARIABLES
    msg,         \* Option<Message>: the message the caller is assembling
    batch,       \* the caller's Vec<Message>, handed to Request::new
    request,     \* Option<Request>: the envelope the caller holds
    newArgs,     \* Option of the arguments of the last Request::new call
    newResult,   \* Option of the Result of the last Request::new call
    nCalls,      \* number of library calls made so far
    sendCount,   \* number of Request::send invocations so far
    netCalls,    \* number of HTTP POSTs issued so far
    transport,   \* Option of what the transport answered to the last send
    wire,        \* Option of the JSON body the last send serialized
    sendResult,  \* Option of the Result of the last send
    json,        \* the response body handed to the decoder
    decoded      \* Option of the Result of decoding json

vars == <<msg, batch, request, newArgs, newResult, nCalls, sendCount, netCalls,
          transport, wire, sendResult, json, decoded>>

builderVars == <<msg, batch, nCalls>>
requestVars == <<request, newArgs, newResult>>
sendVars == <<sendCount, netCalls, transport, wire, sendResult>>
decodeVars == <<json, decoded>>

-----------------------------------------------------------------------------
(* Bounds of the model.                                                    *)

MaxCalls == 4        \* calls of the library per run (builder, new, send)
MaxResults == 2      \* result objects (message and address) in a response body

-----------------------------------------------------------------------------
(* Option and Result.                                                      *)

None == <<>>
Some(v) == <<v>>
IsSome(o) == o # <<>>
IsNone(o) == o = <<>>
Unwrap(o) == o[1]

Ok(v) == [ok |-> TRUE, v |-> v]
Err(e) == [ok |-> FALSE, v |-> e]

-----------------------------------------------------------------------------
(* Inputs of the builder calls.                                            *)

\* <<address, name>> arguments: a well-formed address without and with a
\* name, and a string that is no address.
EmailInputs ==
    { << <<"a", "@", "b">>, None >>,
      << <<"a", "@", "b">>, Some("n") >>,
      << <<"a", "b">>, None >> }
TextInputs == { "Hi" }
HeaderMaps == { {}, { <<"x", "1">> }, { <<"x", "1">>, <<"y", "2">> } }

-----------------------------------------------------------------------------
(* src/src/message.rs                                                      *)

\* Email::new stores both arguments as given.
Email_new(email_address, friendly_name) ==
    [email_address |-> email_address, friendly_name |-> friendly_name]

\* The match on name every constructor and appender starts with: both arms
\* build the Email from the address and the name.
EmailOf(address, name) ==
    IF IsSome(name)
    THEN Email_new(address, Some(Unwrap(name)))
    ELSE Email_new(address, None)

Message_new(address, name) ==
    [ to |-> <<>>,
      from |-> EmailOf(address, name),
      subject |-> "",
      text_body |-> "",
      html_body |-> None,
      api_template |-> None,
      mailing_id |-> None,
      message_id |-> None,
      charset |-> None,
      custom_headers |-> None,
      cc |-> None,
      bcc |-> None,
      reply_to |-> None,
      attachment |-> None,
      merge_data |-> None ]

add_to(m, address, name) ==
    [m EXCEPT !.to = Append(@, EmailOf(address, name))]

set_from(m, address, name) ==
    [m EXCEPT !.from = EmailOf(address, name)]

set_subject(m, s) == [m EXCEPT !.subject = s]
set_text(m, s) == [m EXCEPT !.text_body = s]
set_html(m, s) == [m EXCEPT !.html_body = Some(s)]
set_api_template(m, s) == [m EXCEPT !.api_template = Some(s)]
set_message_id(m, s) == [m EXCEPT !.message_id = Some(s)]
set_charset(m, s) == [m EXCEPT !.charset = Some(s)]

\* The orders in which a HashMap of the given entries can be iterated.
IterationOrders(headers) ==
    { s \in [1..Cardinality(headers) -> headers] :
        \A i, j \in 1..Cardinality(headers) : i # j => s[i] # s[j] }

CustomHeaderOf(entry) == [name |-> entry[1], value |-> entry[2]]

\* add_headers that makes a new list on every call, whether or not one is
\* there already.
add_headers_Recreate(m, order) ==
    [m EXCEPT !.custom_headers =
        Some([i \in 1..Len(order) |-> CustomHeaderOf(order[i])])]

\* add_headers: the list is created when absent, then one CustomHeader is
\* pushed per entry, in the map's iteration order.
add_headers(m, order) ==
    LET init == IF IsNone(m.custom_headers) THEN Some(<<>>) ELSE m.custom_headers
    IN  [m EXCEPT !.custom_headers =
            Some(Unwrap(init) \o [i \in 1..Len(order) |-> CustomHeaderOf(order[i])])]

add_cc(m, address, name) ==
    LET email == EmailOf(address, name)
    IN  [m EXCEPT !.cc = IF IsSome(@) THEN Some(Append(Unwrap(@), email))
                                       ELSE Some(<<email>>)]

add_bcc(m, address, name) ==
    LET email == EmailOf(address, name)
    IN  [m EXCEPT !.bcc = IF IsSome(@) THEN Some(Append(Unwrap(@), email))
                                        ELSE Some(<<email>>)]

set_reply_to(m, address, name) ==
    [m EXCEPT !.reply_to = Some(EmailOf(address, name))]

-----------------------------------------------------------------------------
(* JSON values, and the Serialize that serde derives for the message types *)
(* (rename_all = "PascalCase"; skip_serializing_if = "Option::is_none").   *)

\* Every JSON value has the same fields, so that any two can be compared:
\* t is the type, and the field of that type holds the value.
JValue(t, s, n, b, items, pairs) ==
    [t |-> t, s |-> s, n |-> n, b |-> b, items |-> items, pairs |-> pairs]
JNull == JValue("null", "", 0, FALSE, <<>>, <<>>)
JStr(s) == JValue("str", s, 0, FALSE, <<>>, <<>>)
JNum(n) == JValue("num", "", n, FALSE, <<>>, <<>>)
JBool(b) == JValue("bool", "", 0, b, <<>>, <<>>)
JArr(items) == JValue("arr", "", 0, FALSE, items, <<>>)
JObj(pairs) == JValue("obj", "", 0, FALSE, <<>>, pairs)

HasKey(obj, k) == \E i \in DOMAIN obj.pairs : obj.pairs[i][1] = k
Get(obj, k) == obj.pairs[CHOOSE i \in DOMAIN obj.pairs : obj.pairs[i][1] = k][2]

\* A field without skip_serializing_if is always written.
Field(k, value) == << <<k, value>> >>

\* A field whose skip_serializing_if attribute is missing: None is written
\* as null.
SkipIfNone_Never(k, opt, value) == << <<k, value>> >>

\* A field with skip_serializing_if = "Option::is_none" is written only when
\* it is Some, and then as the value inside.
SkipIfNone(k, opt, value) == IF IsNone(opt) THEN <<>> ELSE << <<k, value>> >>

SerializeCustomHeader(h) ==
    JObj(Field("Name", JStr(h.name)) \o Field("Value", JStr(h.value)))

SerializeHeaders(hs) ==
    JArr([i \in 1..Len(hs) |-> SerializeCustomHeader(hs[i])])

SerializeEmail(e) ==
    JObj(Field("EmailAddress", JStr(e.email_address))
         \o SkipIfNone("FriendlyName", e.friendly_name,
                       IF IsSome(e.friendly_name)
                       THEN JStr(Unwrap(e.friendly_name)) ELSE JNull))

SerializeEmails(es) == JArr([i \in 1..Len(es) |-> SerializeEmail(es[i])])

SerializeAttachment(a) ==
    JObj(Field("Name", JStr(a.name))
         \o Field("Content", JStr(a.content))
         \o Field("ContentId", JStr(a.content_id))
         \o Field("ContentType", JStr(a.content_type))
         \o SkipIfNone("CustomHeaders", a.custom_headers,
                       IF IsSome(a.custom_headers)
                       THEN SerializeHeaders(Unwrap(a.custom_headers)) ELSE JNull))

SerializeData(d) ==
    JObj(Field("Field", JStr(d.field)) \o Field("Value", JStr(d.value)))

SerializeMergeData(md) ==
    JObj(Field("PerMessage",
               JArr([i \in 1..Len(md.per_message) |-> SerializeData(md.per_message[i])]))
         \o Field("Global",
                  JArr([i \in 1..Len(md.global) |-> SerializeData(md.global[i])])))

\* The value written for an Option<string> field that is Some.
StrOf(opt) == IF IsSome(opt) THEN JStr(Unwrap(opt)) ELSE JNull

SerializeMessage(m) ==
    JObj(Field("To", SerializeEmails(m.to))
         \o Field("From", SerializeEmail(m.from))
         \o Field("Subject", JStr(m.subject))
         \o Field("TextBody", JStr(m.text_body))
         \o SkipIfNone("HtmlBody", m.html_body, StrOf(m.html_body))
         \o SkipIfNone("ApiTemplate", m.api_template, StrOf(m.api_template))
         \o SkipIfNone("MailingId", m.mailing_id, StrOf(m.mailing_id))
         \o SkipIfNone("MessageId", m.message_id, StrOf(m.message_id))
         \o SkipIfNone("Charset", m.charset, StrOf(m.charset))
         \o SkipIfNone("CustomHeaders", m.custom_headers,
                       IF IsSome(m.custom_headers)
                       THEN SerializeHeaders(Unwrap(m.custom_headers)) ELSE JNull)
         \o SkipIfNone("Cc", m.cc,
                       IF IsSome(m.cc) THEN SerializeEmails(Unwrap(m.cc)) ELSE JNull)
         \o SkipIfNone("Bcc", m.bcc,
                       IF IsSome(m.bcc) THEN SerializeEmails(Unwrap(m.bcc)) ELSE JNull)
         \o SkipIfNone("ReplyTo", m.reply_to,
                       IF IsSome(m.reply_to) THEN SerializeEmail(Unwrap(m.reply_to))
                                             ELSE JNull)
         \o SkipIfNone("Attachment", m.attachment,
                       IF IsSome(m.attachment)
                       THEN JArr([i \in 1..Len(Unwrap(m.attachment)) |->
                                    SerializeAttachment(Unwrap(m.attachment)[i])])
                       ELSE JNull)
         \o SkipIfNone("MergeData", m.merge_data,
                       IF IsSome(m.merge_data)
                       THEN SerializeMergeData(Unwrap(m.merge_data)) ELSE JNull))

-----------------------------------------------------------------------------
(* src/src/request.rs and src/src/error.rs                                 *)

API_URL == "https://inject.socketlabs.com/api/v1/email"

ServerIds == { 12345 }
ApiKeys == { "k" }

SerializeRequest(r) ==
    JObj(Field("ServerId", JNum(r.server_id))
         \o Field("ApiKey", JStr(r.api_key))
         \o Field("Messages",
                  JArr([i \in 1..Len(r.messages) |-> SerializeMessage(r.messages[i])])))

\* Request::new without its check of the message count.
Request_new_Unchecked(server_id, api_key, messages) ==
    Ok([server_id |-> server_id, api_key |-> api_key, messages |-> messages])

\* Request::new
Request_new(server_id, api_key, messages) ==
    IF Len(messages) = 0
    THEN Err([kind |-> "MessageCountError", detail |-> ""])
    ELSE Ok([server_id |-> server_id, api_key |-> api_key, messages |-> messages])

\* The kinds of reqwest::Error, and the predicates error.rs asks of one: each
\* matches on the error's kind, so at most one of them holds of an error.
ReqwestKinds == { "Http", "Json", "UrlEncoded", "TooManyRedirects", "RedirectLoop", "Io" }
ReqwestErrors == [kind : ReqwestKinds, url : { None, Some(API_URL) }]

is_http(error) == error.kind = "Http"
is_serialization(error) == error.kind \in { "Json", "UrlEncoded" }
is_redirect(error) == error.kind \in { "TooManyRedirects", "RedirectLoop" }

\* A conversion that looks at the URL before it looks at the kind.
FromReqwestError_UrlFirst(error) ==
    IF IsSome(error.url)
    THEN [kind |-> "RequestError", detail |-> "Problem making request to SocketLabs."]
    ELSE IF is_redirect(error)
    THEN [kind |-> "TooManyRedirects", detail |-> ""]
    ELSE [kind |-> "UnexpectedError", detail |-> ""]

\* impl From<ReqwestError> for SocketLabsError
FromReqwestError(error) ==
    IF is_http(error)
    THEN IF IsNone(error.url)
         THEN [kind |-> "UnexpectedError", detail |-> ""]
         ELSE [kind |-> "RequestError",
               detail |-> "Problem making request to SocketLabs."]
    ELSE IF is_serialization(error)
    THEN [kind |-> "UnexpectedError", detail |-> ""]
    ELSE IF is_redirect(error)
    THEN [kind |-> "TooManyRedirects", detail |-> ""]
    ELSE [kind |-> "UnexpectedError", detail |-> ""]

\* impl From<SerdeError> for SocketLabsError
FromSerdeError(diagnostic) == [kind |-> "MessageParsingError", detail |-> diagnostic]

\* What Client::post(..).send() can answer: a response, whatever its status,
\* or a reqwest::Error.
\* A body that is no JSON text, and the marker of a key left out of a document.
JMalformed == JValue("malformed", "", 0, FALSE, <<>>, <<>>)
JAbsent == JValue("absent", "", 0, FALSE, <<>>, <<>>)

BodyInputs ==
    { JObj(<< <<"ErrorCode", JStr("Success")>>,
              <<"TransactionReceipt", JNull>>,
              <<"MessageResults", JNull>> >>),
      JObj(<< <<"TransactionReceipt", JStr("r")>> >>),
      JMalformed }

HttpResponses ==
    [status : { 200 }, body : BodyInputs] \cup { [status |-> 500, body |-> JMalformed] }

TransportOutcomes ==
    { Ok(r) : r \in HttpResponses } \cup { Err(e) : e \in ReqwestErrors }

\* A send that posts a second time when the first POST fails.
PostCalls_Retry(outcome) == IF outcome.ok THEN 1 ELSE 2

\* The number of HTTP POSTs one send issues for a transport outcome: the one
\* Client::post(API_URL)...send() of its body.
PostCalls(outcome) == 1

\* A send that hands its messages over and keeps none.
Request_after_send_Drained(r) == [r EXCEPT !.messages = <<>>]

\* The Request once send has returned: send borrows it as &self and its
\* fields (u16, String, Vec<Message>) have no interior mutability, so it is
\* the Request send was called on.
Request_after_send(r) == r

\* Request::send: the transport's response as it is, or its error converted
\* by From<ReqwestError> (map_err(From::from)).
Request_send(r, outcome) ==
    IF outcome.ok THEN Ok(outcome.v) ELSE Err(FromReqwestError(outcome.v))

-----------------------------------------------------------------------------
(* src/src/response.rs: the Deserialize that serde derives for the         *)
(* response types, as serde_json drives it.  A struct is read from a JSON  *)
(* object pair by pair, in document order; the documents modelled hold     *)
(* objects where a struct is expected and strings, numbers, booleans or    *)
(* null where an error code is expected.                                   *)

U16Max == 65535

PostMessageVariants ==
    { "Success", "Warning", "AccountDisabled", "InternalError",
      "InvalidAuthentication", "InvalidData", "NoMessages", "EmptyMessage",
      "OverQuota", "TooManyErrors", "TooManyMessages", "TooManyRecipients",
      "NoValidRecipients" }

MessageResultVariants ==
    { "Warning", "InvalidAttachment", "MessageTooLarge", "EmptySubject",
      "EmptyToAddress", "InvalidFromAddress", "NoValidBodyParts",
      "NoValidRecipients", "InvalidMergeData", "InvalidTemplateId",
      "MessageBodyConflict" }

AddressResultVariants == { "InvalidAddress" }

UnknownErrorCode == "UnknownErrorCode"

\* An enum that matches no string it is given.
DeserializeEnum_NoMatch(variants, j) ==
    IF j.t = "str"
    THEN [r |-> Err("unknown variant"), consumed |-> TRUE]
    ELSE [r |-> Err("expected value"), consumed |-> FALSE]

\* $enum::deserialize, with whether the value was consumed from the input.
\* A string is read whole before it is matched against the variants
\* (UnknownErrorCode is skip_deserializing, so it is none of them); any
\* other value is refused where it stands.
DeserializeEnum(variants, j) ==
    IF j.t = "str"
    THEN [r |-> IF j.s \in variants THEN Ok(j.s) ELSE Err("unknown variant"),
          consumed |-> TRUE]
    ELSE [r |-> Err("expected value"), consumed |-> FALSE]

\* A decoding function that returns the enum's error instead of the fallback.
DeserializeCode_Propagate(variants, j) ==
    LET d == DeserializeEnum(variants, j)
    IN  [r |-> d.r, consumed |-> d.consumed]

\* $func: Ok($enum::deserialize(deserializer).unwrap_or($enum::UnknownErrorCode))
DeserializeCode(variants, j) ==
    LET d == DeserializeEnum(variants, j)
    IN  [r |-> Ok(IF d.r.ok THEN d.r.v ELSE UnknownErrorCode), consumed |-> d.consumed]

deserialize_postmessage(j) == DeserializeCode(PostMessageVariants, j)
deserialize_messageresult(j) == DeserializeCode(MessageResultVariants, j)
deserialize_addressresult(j) == DeserializeCode(AddressResultVariants, j)

\* A deserialize_with field: the value its function returns, or the error the
\* object reader raises when the function left the value unread.
CodeField(d) == IF d.consumed THEN d.r ELSE Err("expected comma or closing brace")

DeserializeString(j) ==
    IF j.t = "str" THEN Ok(j.s) ELSE Err("invalid type: expected a string")

DeserializeBool(j) ==
    IF j.t = "bool" THEN Ok(j.b) ELSE Err("invalid type: expected a boolean")

DeserializeU16(j) ==
    IF j.t # "num" THEN Err("invalid type: expected u16")
    ELSE IF j.n < 0 \/ j.n > U16Max THEN Err("invalid value: expected u16")
    ELSE Ok(j.n)

\* Option<T>: null is None, anything else is read as a T, with result
\* inner.
DeserializeOption(j, inner) ==
    IF j.t = "null" THEN Ok(None)
    ELSE IF inner.ok THEN Ok(Some(inner.v)) ELSE inner

\* Vec<T>: the elements in order, up to the first that fails; rs holds the
\* result of reading each element as a T.
DeserializeVec(j, rs) ==
    IF j.t # "arr" THEN Err("invalid type: expected a sequence")
    ELSE LET bad == { i \in 1..Len(j.items) : ~rs[i].ok }
         IN  IF bad # {}
             THEN rs[CHOOSE i \in bad : \A k \in bad : i <= k]
             ELSE Ok([i \in 1..Len(j.items) |-> rs[i].v])

\* A key the struct does not name: its value is read and dropped.
IgnoredAny(j) == IF j.t = "malformed" THEN Err("expected value") ELSE Ok(j)

\* A required field given a default: when no pair gave it, the fallback code.
RequiredField_Default(opt, name) ==
    IF IsSome(opt) THEN Ok(Unwrap(opt)) ELSE Ok(UnknownErrorCode)

\* After the last pair: a field without a default that no pair gave is an
\* error; an Option field that no pair gave is None.
RequiredField(opt, name) ==
    IF IsSome(opt) THEN Ok(Unwrap(opt)) ELSE Err("missing field " \o name)

OptionalField(opt) == IF IsSome(opt) THEN Unwrap(opt) ELSE None

DuplicateField(name) == Err("duplicate field " \o name)

RECURSIVE VisitAddressResult(_, _, _)
VisitAddressResult(pairs, i, acc) ==
    IF i > Len(pairs)
    THEN LET e == RequiredField(acc.email_address, "EmailAddress")
             a == RequiredField(acc.accepted, "Accepted")
             c == RequiredField(acc.error_code, "ErrorCode")
         IN  IF ~e.ok THEN e ELSE IF ~a.ok THEN a ELSE IF ~c.ok THEN c
             ELSE Ok([email_address |-> e.v, accepted |-> a.v, error_code |-> c.v])
    ELSE LET k == pairs[i][1]
             val == pairs[i][2]
         IN  CASE k = "EmailAddress" ->
                    IF IsSome(acc.email_address) THEN DuplicateField(k)
                    ELSE LET r == DeserializeString(val)
                         IN  IF ~r.ok THEN r
                             ELSE VisitAddressResult(pairs, i + 1,
                                      [acc EXCEPT !.email_address = Some(r.v)])
               [] k = "Accepted" ->
                    IF IsSome(acc.accepted) THEN DuplicateField(k)
                    ELSE LET r == DeserializeBool(val)
                         IN  IF ~r.ok THEN r
                             ELSE VisitAddressResult(pairs, i + 1,
                                      [acc EXCEPT !.accepted = Some(r.v)])
               [] k = "ErrorCode" ->
                    IF IsSome(acc.error_code) THEN DuplicateField(k)
                    ELSE LET r == CodeField(deserialize_addressresult(val))
                         IN  IF ~r.ok THEN r
                             ELSE VisitAddressResult(pairs, i + 1,
                                      [acc EXCEPT !.error_code = Some(r.v)])
               [] OTHER ->
                    LET r == IgnoredAny(val)
                    IN  IF ~r.ok THEN r ELSE VisitAddressResult(pairs, i + 1, acc)

DeserializeAddressResult(j) ==
    IF j.t # "obj" THEN Err("invalid type: expected struct AddressResult")
    ELSE VisitAddressResult(j.pairs, 1,
             [email_address |-> None, accepted |-> None, error_code |-> None])

DeserializeAddressResults(j) ==
    DeserializeVec(j, [i \in 1..Len(j.items) |-> DeserializeAddressResult(j.items[i])])

RECURSIVE VisitMessageResult(_, _, _)
VisitMessageResult(pairs, i, acc) ==
    IF i > Len(pairs)
    THEN LET x == RequiredField(acc.index, "Index")
             c == RequiredField(acc.error_code, "ErrorCode")
         IN  IF ~x.ok THEN x ELSE IF ~c.ok THEN c
             ELSE Ok([index |-> x.v, error_code |-> c.v,
                      address_result |-> OptionalField(acc.address_result)])
    ELSE LET k == pairs[i][1]
             val == pairs[i][2]
         IN  CASE k = "Index" ->
                    IF IsSome(acc.index) THEN DuplicateField(k)
                    ELSE LET r == DeserializeU16(val)
                         IN  IF ~r.ok THEN r
                             ELSE VisitMessageResult(pairs, i + 1,
                                      [acc EXCEPT !.index = Some(r.v)])
               [] k = "ErrorCode" ->
                    IF IsSome(acc.error_code) THEN DuplicateField(k)
                    ELSE LET r == CodeField(deserialize_messageresult(val))
                         IN  IF ~r.ok THEN r
                             ELSE VisitMessageResult(pairs, i + 1,
                                      [acc EXCEPT !.error_code = Some(r.v)])
               [] k = "AddressResult" ->
                    IF IsSome(acc.address_result) THEN DuplicateField(k)
                    ELSE LET r == DeserializeOption(val, DeserializeAddressResults(val))
                         IN  IF ~r.ok THEN r
                             ELSE VisitMessageResult(pairs, i + 1,
                                      [acc EXCEPT !.address_result = Some(r.v)])
               [] OTHER ->
                    LET r == IgnoredAny(val)
                    IN  IF ~r.ok THEN r ELSE VisitMessageResult(pairs, i + 1, acc)

DeserializeMessageResult(j) ==
    IF j.t # "obj" THEN Err("invalid type: expected struct MessageResult")
    ELSE VisitMessageResult(j.pairs, 1,
             [index |-> None, error_code |-> None, address_result |-> None])

DeserializeMessageResults(j) ==
    DeserializeVec(j, [i \in 1..Len(j.items) |-> DeserializeMessageResult(j.items[i])])

RECURSIVE VisitResponse(_, _, _)
VisitResponse(pairs, i, acc) ==
    IF i > Len(pairs)
    THEN LET c == RequiredField(acc.error_code, "ErrorCode")
         IN  IF ~c.ok THEN c
             ELSE Ok([error_code |-> c.v,
                      transaction_receipt |-> OptionalField(acc.transaction_receipt),
                      message_results |-> OptionalField(acc.message_results)])
    ELSE LET k == pairs[i][1]
             val == pairs[i][2]
         IN  CASE k = "ErrorCode" ->
                    IF IsSome(acc.error_code) THEN DuplicateField(k)
                    ELSE LET r == CodeField(deserialize_postmessage(val))
                         IN  IF ~r.ok THEN r
                             ELSE VisitResponse(pairs, i + 1,
                                      [acc EXCEPT !.error_code = Some(r.v)])
               [] k = "TransactionReceipt" ->
                    IF IsSome(acc.transaction_receipt) THEN DuplicateField(k)
                    ELSE LET r == DeserializeOption(val, DeserializeString(val))
                         IN  IF ~r.ok THEN r
                             ELSE VisitResponse(pairs, i + 1,
                                      [acc EXCEPT !.transaction_receipt = Some(r.v)])
               [] k = "MessageResults" ->
                    IF IsSome(acc.message_results) THEN DuplicateField(k)
                    ELSE LET r == DeserializeOption(val, DeserializeMessageResults(val))
                         IN  IF ~r.ok THEN r
                             ELSE VisitResponse(pairs, i + 1,
                                      [acc EXCEPT !.message_results = Some(r.v)])
               [] OTHER ->
                    LET r == IgnoredAny(val)
                    IN  IF ~r.ok THEN r ELSE VisitResponse(pairs, i + 1, acc)

\* serde_json::from_str::<Response>
DeserializeResponse(j) ==
    IF j.t = "malformed" THEN Err("expected value")
    ELSE IF j.t # "obj" THEN Err("invalid type: expected struct Response")
    ELSE VisitResponse(j.pairs, 1,
             [error_code |-> None, transaction_receipt |-> None,
              message_results |-> None])

\* A decode whose error is converted as the ? operator converts it, by From<SerdeError>.
DecodeResponse(j) ==
    LET r == DeserializeResponse(j)
    IN  IF r.ok THEN r ELSE Err(FromSerdeError(r.v))

-----------------------------------------------------------------------------
(* The response bodies handed to the decoder: every document built from    *)
(* the choices below that holds at most MaxResults result objects.  A      *)
(* choice of JAbsent leaves the key out.                                   *)

Pair(k, choice) == IF choice = JAbsent THEN <<>> ELSE << <<k, choice>> >>

CodeChoices == { JAbsent, JNull, JStr("Success"), JStr("InvalidAddress"),
                 JStr("TotallyNewCode") }
AddressCodeChoices == { JAbsent, JStr("InvalidAddress"), JStr("TotallyNewCode") }
MessageCodeChoices == { JAbsent, JStr("Warning"), JStr("TotallyNewCode") }
ReceiptChoices == { JAbsent, JNull, JStr("r") }
IndexChoices == { JAbsent, JNum(0) }
EmailChoices == { JAbsent, JStr("a@b") }
AcceptedChoices == { JAbsent, JBool(TRUE) }

AddressResultDocs ==
    { JObj(Pair("EmailAddress", e) \o Pair("Accepted", a) \o Pair("ErrorCode", c)) :
        e \in EmailChoices, a \in AcceptedChoices, c \in AddressCodeChoices }

\* The values of an AddressResult key that hold exactly n address results.
AddressArrays(n) ==
    IF n = 0 THEN { JAbsent, JNull, JArr(<<>>) }
    ELSE { JArr(items) : items \in [1..n -> AddressResultDocs] }

\* The message results that hold exactly n address results.
MessageResultDocs(n) ==
    { JObj(Pair("Index", x) \o Pair("ErrorCode", c) \o Pair("AddressResult", a)) :
        x \in IndexChoices, c \in MessageCodeChoices, a \in AddressArrays(n) }

\* The sequences of message results that hold at most n result objects.
RECURSIVE MessageResultSeqs(_)
MessageResultSeqs(n) ==
    { <<>> } \cup
    UNION { { <<m>> \o rest : m \in MessageResultDocs(k - 1),
                              rest \in MessageResultSeqs(n - k) } : k \in 1..n }

MessageResultsChoices ==
    { JAbsent, JNull } \cup { JArr(items) : items \in MessageResultSeqs(MaxResults) }

ResponseDocs ==
    { JObj(Pair("ErrorCode", c) \o Pair("TransactionReceipt", r)
           \o Pair("MessageResults", m)) :
        c \in CodeChoices, r \in ReceiptChoices, m \in MessageResultsChoices }
    \cup { JMalformed }

-----------------------------------------------------------------------------
(* Initial state: nothing built, nothing sent, nothing decoded.            *)

Init ==
    /\ msg = None
    /\ batch = <<>>
    /\ request = None
    /\ newArgs = None
    /\ newResult = None
    /\ nCalls = 0
    /\ sendCount = 0
    /\ netCalls = 0
    /\ transport = None
    /\ wire = None
    /\ sendResult = None
    /\ json = None
    /\ decoded = None

-----------------------------------------------------------------------------
(* The builder calls, each on the message under assembly.                  *)

Build(m) ==
    /\ nCalls < MaxCalls
    /\ msg' = Some(m)
    /\ nCalls' = nCalls + 1
    /\ UNCHANGED <<batch, requestVars, sendVars, decodeVars>>

MessageNew ==
    \E e \in EmailInputs : Build(Message_new(e[1], e[2]))

AddTo ==
    /\ IsSome(msg)
    /\ \E e \in EmailInputs : Build(add_to(Unwrap(msg), e[1], e[2]))

SetFrom ==
    /\ IsSome(msg)
    /\ \E e \in EmailInputs : Build(set_from(Unwrap(msg), e[1], e[2]))

SetSubject ==
    /\ IsSome(msg)
    /\ \E s \in TextInputs : Build(set_subject(Unwrap(msg), s))

SetText ==
    /\ IsSome(msg)
    /\ \E s \in TextInputs : Build(set_text(Unwrap(msg), s))

SetHtml ==
    /\ IsSome(msg)
    /\ \E s \in TextInputs : Build(set_html(Unwrap(msg), s))

SetApiTemplate ==
    /\ IsSome(msg)
    /\ \E s \in TextInputs : Build(set_api_template(Unwrap(msg), s))

SetMessageId ==
    /\ IsSome(msg)
    /\ \E s \in TextInputs : Build(set_message_id(Unwrap(msg), s))

SetCharset ==
    /\ IsSome(msg)
    /\ \E s \in TextInputs : Build(set_charset(Unwrap(msg), s))

AddHeaders ==
    /\ IsSome(msg)
    /\ \E h \in HeaderMaps : \E order \in IterationOrders(h) :
          Build(add_headers(Unwrap(msg), order))

AddCc ==
    /\ IsSome(msg)
    /\ \E e \in EmailInputs : Build(add_cc(Unwrap(msg), e[1], e[2]))

AddBcc ==
    /\ IsSome(msg)
    /\ \E e \in EmailInputs : Build(add_bcc(Unwrap(msg), e[1], e[2]))

SetReplyTo ==
    /\ IsSome(msg)
    /\ \E e \in EmailInputs :
          Build(set_reply_to(Unwrap(msg), e[1], e[2]))

\* The caller moves the assembled message into the vector it will hand to
\* Request::new.
PushMessage ==
    /\ IsSome(msg)
    /\ batch' = Append(batch, Unwrap(msg))
    /\ msg' = None
    /\ UNCHANGED <<nCalls, requestVars, sendVars, decodeVars>>

\* Request::new on the caller's vector, which is moved into the call.
NewRequest ==
    /\ \E sid \in ServerIds, key \in ApiKeys :
         LET res == Request_new(sid, key, batch)
         IN  /\ newArgs' = Some([server_id |-> sid, api_key |-> key, messages |-> batch])
             /\ newResult' = Some(res)
             /\ request' = IF res.ok THEN Some(res.v) ELSE request
    /\ nCalls < MaxCalls
    /\ nCalls' = nCalls + 1
    /\ batch' = <<>>
    /\ UNCHANGED <<msg, sendVars, decodeVars>>

\* Request::send on the envelope the caller holds.
Send ==
    /\ IsSome(request)
    /\ nCalls < MaxCalls
    /\ \E outcome \in TransportOutcomes :
         /\ wire' = Some(SerializeRequest(Unwrap(request)))
         /\ transport' = Some(outcome)
         /\ netCalls' = netCalls + PostCalls(outcome)
         /\ sendResult' = Some(Request_send(Unwrap(request), outcome))
    /\ request' = Some(Request_after_send(Unwrap(request)))
    /\ sendCount' = sendCount + 1
    /\ nCalls' = nCalls + 1
    /\ UNCHANGED <<msg, batch, newArgs, newResult, decodeVars>>

Next ==
    \/ MessageNew
    \/ AddTo
    \/ SetFrom
    \/ SetSubject
    \/ SetText
    \/ SetHtml
    \/ SetApiTemplate
    \/ SetMessageId
    \/ SetCharset
    \/ AddHeaders
    \/ AddCc
    \/ AddBcc
    \/ SetReplyTo
    \/ PushMessage
    \/ NewRequest
    \/ Send

Spec == Init /\ [][Next]_vars

-----------------------------------------------------------------------------
(* The decoder on its own: a response body is drawn, then decoded.         *)

InitDecode ==
    /\ msg = None
    /\ batch = <<>>
    /\ request = None
    /\ newArgs = None
    /\ newResult = None
    /\ nCalls = 0
    /\ sendCount = 0
    /\ netCalls = 0
    /\ transport = None
    /\ wire = None
    /\ sendResult = None
    /\ json \in { Some(d) : d \in ResponseDocs }
    /\ decoded = None

Decode ==
    /\ IsSome(json)
    /\ IsNone(decoded)
    /\ decoded' = Some(DecodeResponse(Unwrap(json)))
    /\ UNCHANGED <<json, builderVars, requestVars, sendVars>>

NextDecode == Decode

SpecDecode == InitDecode /\ [][NextDecode]_vars

-----------------------------------------------------------------------------
(* What the claims speak of.                                               *)

Range(seq) == { seq[i] : i \in DOMAIN seq }

\* Every Message the program holds: under assembly, in the caller's vector,
\* or owned by the Request.
AllMessages ==
    Range(msg) \cup Range(batch)
    \cup (IF IsSome(request) THEN Range(Unwrap(request).messages) ELSE {})

\* Every Email a message holds.
EmailsOf(m) ==
    { m.from } \cup Range(m.to) \cup Range(m.reply_to)
    \cup (IF IsSome(m.cc) THEN Range(Unwrap(m.cc)) ELSE {})
    \cup (IF IsSome(m.bcc) THEN Range(Unwrap(m.bcc)) ELSE {})

\* The address grammar, as far as the model's alphabet goes: one "@", with a
\* character before it and a character after it.
ValidAddress(a) ==
    /\ Cardinality({ i \in DOMAIN a : a[i] = "@" }) = 1
    /\ \E i \in DOMAIN a : a[i] = "@" /\ 1 < i /\ i < Len(a)

OptionalKeys ==
    { "HtmlBody", "ApiTemplate", "MailingId", "MessageId", "Charset",
      "CustomHeaders", "Cc", "Bcc", "ReplyTo", "Attachment", "MergeData" }

\* The field of the message behind an optional key.
OptionalFieldOf(m, k) ==
    CASE k = "HtmlBody" -> m.html_body
      [] k = "ApiTemplate" -> m.api_template
      [] k = "MailingId" -> m.mailing_id
      [] k = "MessageId" -> m.message_id
      [] k = "Charset" -> m.charset
      [] k = "CustomHeaders" -> m.custom_headers
      [] k = "Cc" -> m.cc
      [] k = "Bcc" -> m.bcc
      [] k = "ReplyTo" -> m.reply_to
      [] k = "Attachment" -> m.attachment
      [] k = "MergeData" -> m.merge_data

\* C1: Request::new fails with MessageCountError when the messages are
\* empty; for a non-empty list it succeeds and the Request holds the given
\* server_id, api_key and messages, in the given order; so no Request without
\* messages is ever held.
C1_RequestNew ==
    /\ IsSome(newResult) =>
         LET a == Unwrap(newArgs)
             r == Unwrap(newResult)
         IN  /\ Len(a.messages) = 0 =>
                  ~r.ok /\ r.v.kind = "MessageCountError"
             /\ Len(a.messages) > 0 =>
                  /\ r.ok
                  /\ r.v.messages = a.messages
                  /\ r.v.server_id = a.server_id
                  /\ r.v.api_key = a.api_key
    /\ IsSome(request) => Len(Unwrap(request).messages) > 0

\* A Request of two different messages is held, and a later Request::new on
\* an empty vector has failed.
C1_Witness ==
    /\ IsSome(request)
    /\ Len(Unwrap(request).messages) = 2
    /\ Unwrap(request).messages[1] # Unwrap(request).messages[2]
    /\ IsSome(newResult)
    /\ ~Unwrap(newResult).ok
    /\ Len(Unwrap(newArgs).messages) = 0

\* C2: every Email held by a Message (from, to, cc, bcc, reply_to) has a
\* syntactically valid address, since constructing an Email from an invalid
\* address fails.
C2_EveryHeldAddressValid ==
    \A m \in AllMessages : \A e \in EmailsOf(m) : ValidAddress(e.email_address)

\* C3: the serialized Message holds an optional key only if the field behind
\* it is set, and never with a null value; with no optional field set, no
\* optional key is written.
C3_OptionalKeysOnlyWhenSet ==
    \A m \in AllMessages :
        LET out == SerializeMessage(m)
        IN  /\ \A k \in OptionalKeys :
                 HasKey(out, k) =>
                    IsSome(OptionalFieldOf(m, k)) /\ Get(out, k).t # "null"
            /\ (\A k \in OptionalKeys : IsNone(OptionalFieldOf(m, k))) =>
                 { out.pairs[i][1] : i \in DOMAIN out.pairs }
                    = { "To", "From", "Subject", "TextBody" }

\* A message with its html body set and no cc: HtmlBody is written, Cc is
\* not; and a message with no optional field set is held too.
C3_Witness ==
    /\ \E m \in AllMessages :
          /\ IsSome(m.html_body)
          /\ IsNone(m.cc)
          /\ HasKey(SerializeMessage(m), "HtmlBody")
          /\ ~HasKey(SerializeMessage(m), "Cc")
    /\ \E m \in AllMessages : \A k \in OptionalKeys : IsNone(OptionalFieldOf(m, k))

\* C6: on a successful HTTP exchange send returns the body decoded into a
\* Response, and MessageParsingError when the body fails to decode.
C6_SendDecodesBody ==
    (IsSome(sendResult) /\ Unwrap(transport).ok) =>
        Unwrap(sendResult) = DecodeResponse(Unwrap(transport).v.body)

\* C7: every invocation of send issues exactly one POST, whatever its
\* outcome; a transport failure is what the invocation returns.
C7_OnePostPerSend ==
    /\ netCalls = sendCount
    /\ (IsSome(transport) /\ ~Unwrap(transport).ok) => ~Unwrap(sendResult).ok

\* Two sends have been made, the last of which met a transport failure.
C7_Witness ==
    /\ sendCount = 2
    /\ netCalls = 2
    /\ ~Unwrap(transport).ok
    /\ ~Unwrap(sendResult).ok

\* C8: a transport failure of send is returned as an error of one kind: a
\* redirect loop as TooManyRedirects, an HTTP failure that bears a URL as
\* RequestError, a serialization failure or any other failure as
\* UnexpectedError; never as MessageCountError or MessageParsingError.
C8_TransportFailureClassified ==
    (IsSome(transport) /\ ~Unwrap(transport).ok) =>
        LET e == Unwrap(transport).v
            r == Unwrap(sendResult)
            redirect == e.kind \in { "TooManyRedirects", "RedirectLoop" }
            http == e.kind = "Http" /\ IsSome(e.url)
        IN  /\ ~r.ok
            /\ r.v.kind \in { "TooManyRedirects", "RequestError", "UnexpectedError" }
            /\ redirect => r.v.kind = "TooManyRedirects"
            /\ http => r.v.kind = "RequestError"
            /\ e.kind \in { "Json", "UrlEncoded" } => r.v.kind = "UnexpectedError"
            /\ (~redirect /\ ~http) => r.v.kind = "UnexpectedError"

\* A redirect loop, which bears the URL it was met at, came back as
\* TooManyRedirects.
C8_Witness ==
    /\ IsSome(transport)
    /\ ~Unwrap(transport).ok
    /\ Unwrap(transport).v = [kind |-> "RedirectLoop", url |-> Some(API_URL)]
    /\ Unwrap(sendResult) = Err([kind |-> "TooManyRedirects", detail |-> ""])

\* C9: whenever the CustomHeaders, Cc or Bcc key is in the serialized
\* message, its list is not empty.
C9_NoEmptyOptionalList ==
    \A m \in AllMessages :
        \A k \in { "CustomHeaders", "Cc", "Bcc" } :
            HasKey(SerializeMessage(m), k) =>
                Len(Get(SerializeMessage(m), k).items) > 0

\* The steps that call a builder operation on the message under assembly.
BuilderStep ==
    \/ AddTo
    \/ SetFrom
    \/ SetSubject
    \/ SetText
    \/ SetHtml
    \/ SetApiTemplate
    \/ SetMessageId
    \/ SetCharset
    \/ AddHeaders
    \/ AddCc
    \/ AddBcc
    \/ SetReplyTo

IsPrefix(s, t) == Len(s) <= Len(t) /\ SubSeq(t, 1, Len(s)) = s

\* The list behind an optional list field; no element when the field is absent.
ListOf(opt) == IF IsSome(opt) THEN Unwrap(opt) ELSE <<>>

\* The array written under a key of a serialized message; no element when
\* the key is not written.
WireList(out, k) == IF HasKey(out, k) THEN Get(out, k).items ELSE <<>>

\* Every list of m is a prefix of the same list of n, in the message and in
\* what is serialized; every optional field set in m is set in n.
Monotonic(m, n) ==
    /\ IsPrefix(m.to, n.to)
    /\ IsPrefix(ListOf(m.cc), ListOf(n.cc))
    /\ IsPrefix(ListOf(m.bcc), ListOf(n.bcc))
    /\ IsPrefix(ListOf(m.custom_headers), ListOf(n.custom_headers))
    /\ LET before == SerializeMessage(m)
           after == SerializeMessage(n)
       IN  \A k \in { "To", "Cc", "Bcc", "CustomHeaders" } :
              IsPrefix(WireList(before, k), WireList(after, k))
    /\ \A k \in OptionalKeys :
          IsSome(OptionalFieldOf(m, k)) => IsSome(OptionalFieldOf(n, k))

\* The step is add_headers(headers), and the headers past the previous list
\* are as many as the map's entries, one for each entry.
OnePerEntry(m, n, headers) ==
    LET old == ListOf(m.custom_headers)
        new == ListOf(n.custom_headers)
    IN  /\ Len(new) = Len(old) + Cardinality(headers)
        /\ { new[i] : i \in (Len(old) + 1)..Len(new) }
              = { CustomHeaderOf(e) : e \in headers }

\* C11: a builder operation on a message leaves each of to, cc, bcc and
\* custom_headers with its previous contents as a prefix, in the message and
\* in the serialized arrays; add_headers appends exactly one CustomHeader per
\* entry of the map; and no optional field that was set becomes absent.
C11_AssemblyMonotonic ==
    [][ BuilderStep =>
          /\ Monotonic(Unwrap(msg), Unwrap(msg'))
          /\ \A h \in HeaderMaps : \A order \in IterationOrders(h) :
                msg' = Some(add_headers(Unwrap(msg), order))
                    => OnePerEntry(Unwrap(msg), Unwrap(msg'), h) ]_vars

\* A message with a recipient whose custom headers are those of a map of one
\* entry followed by those of a map of two: two add_headers calls, the second
\* on a list that was there already.
C11_Witness ==
    /\ IsSome(msg)
    /\ Len(Unwrap(msg).to) = 1
    /\ IsSome(Unwrap(msg).custom_headers)
    /\ LET hs == Unwrap(Unwrap(msg).custom_headers)
       IN  /\ Len(hs) = 3
           /\ hs[1] = [name |-> "x", value |-> "1"]
           /\ { hs[2], hs[3] } = { [name |-> "x", value |-> "1"],
                                   [name |-> "y", value |-> "2"] }

\* C12: a send leaves the Request as it was, whether the transport failed or
\* answered; its body is the serialization of that Request, so sends of one
\* Request write the same body; it makes one more HTTP call and returns what
\* the transport gave; and a held Request can be sent whatever was sent
\* before.
C12_SendLeavesRequest ==
    [][ /\ (IsSome(request) /\ nCalls < MaxCalls) => ENABLED Send
        /\ Send =>
              /\ request' = request
              /\ wire' = Some(SerializeRequest(Unwrap(request')))
              /\ (sendCount > 0 /\ wire = Some(SerializeRequest(Unwrap(request))))
                    => wire' = wire
              /\ netCalls' = netCalls + 1
              /\ Unwrap(sendResult').ok = Unwrap(transport').ok ]_vars

\* The Request that Request::new returned has been sent twice, the second
\* time with an answer from the server, and is held as it was made.
C12_Witness ==
    /\ sendCount = 2
    /\ netCalls = 2
    /\ IsSome(request)
    /\ Unwrap(newResult) = Ok(Unwrap(request))
    /\ wire = Some(SerializeRequest(Unwrap(request)))
    /\ Unwrap(transport).ok
    /\ Unwrap(sendResult).ok

-----------------------------------------------------------------------------
(* What the decoding claims speak of: the shape of a response document,    *)
(* read off the document itself.                                           *)

HasOfType(obj, k, t) == HasKey(obj, k) /\ Get(obj, k).t = t
NullOrAbsent(obj, k) == ~HasKey(obj, k) \/ Get(obj, k).t = "null"

\* The elements of the array under key k, none when the key holds no array.
ItemsAt(obj, k) == IF HasOfType(obj, k, "arr") THEN Get(obj, k).items ELSE <<>>

WellFormedAddress(a) ==
    /\ a.t = "obj"
    /\ HasOfType(a, "EmailAddress", "str")
    /\ HasOfType(a, "Accepted", "bool")
    /\ HasOfType(a, "ErrorCode", "str")

WellFormedMessage(m) ==
    /\ m.t = "obj"
    /\ HasOfType(m, "Index", "num")
    /\ Get(m, "Index").n \in 0..U16Max
    /\ HasOfType(m, "ErrorCode", "str")
    /\ NullOrAbsent(m, "AddressResult") \/ HasOfType(m, "AddressResult", "arr")
    /\ \A i \in DOMAIN ItemsAt(m, "AddressResult") :
          WellFormedAddress(ItemsAt(m, "AddressResult")[i])

\* Every required key is there with a value of its type, every error code is
\* a string, every optional key is absent, null or of its type.
WellFormedResponse(d) ==
    /\ d.t = "obj"
    /\ HasOfType(d, "ErrorCode", "str")
    /\ NullOrAbsent(d, "TransactionReceipt") \/ HasOfType(d, "TransactionReceipt", "str")
    /\ NullOrAbsent(d, "MessageResults") \/ HasOfType(d, "MessageResults", "arr")
    /\ \A i \in DOMAIN ItemsAt(d, "MessageResults") :
          WellFormedMessage(ItemsAt(d, "MessageResults")[i])

\* The variant a code string names: itself when the enumeration knows it, the
\* fallback otherwise.
VariantNamed(variants, code) == IF code \in variants THEN code ELSE UnknownErrorCode

\* The Response a well-formed document describes, field by field.
AddressDescribed(a) ==
    [email_address |-> Get(a, "EmailAddress").s,
     accepted |-> Get(a, "Accepted").b,
     error_code |-> VariantNamed(AddressResultVariants, Get(a, "ErrorCode").s)]

MessageDescribed(m) ==
    [index |-> Get(m, "Index").n,
     error_code |-> VariantNamed(MessageResultVariants, Get(m, "ErrorCode").s),
     address_result |->
        IF NullOrAbsent(m, "AddressResult") THEN None
        ELSE Some([i \in DOMAIN ItemsAt(m, "AddressResult") |->
                      AddressDescribed(ItemsAt(m, "AddressResult")[i])])]

ResponseDescribed(d) ==
    [error_code |-> VariantNamed(PostMessageVariants, Get(d, "ErrorCode").s),
     transaction_receipt |->
        IF NullOrAbsent(d, "TransactionReceipt") THEN None
        ELSE Some(Get(d, "TransactionReceipt").s),
     message_results |->
        IF NullOrAbsent(d, "MessageResults") THEN None
        ELSE Some([i \in DOMAIN ItemsAt(d, "MessageResults") |->
                      MessageDescribed(ItemsAt(d, "MessageResults")[i])])]

\* Some error-code string of the document is no variant of its enumeration.
HasUnknownCode(d) ==
    \/ Get(d, "ErrorCode").s \notin PostMessageVariants
    \/ \E i \in DOMAIN ItemsAt(d, "MessageResults") :
          LET m == ItemsAt(d, "MessageResults")[i]
          IN  \/ Get(m, "ErrorCode").s \notin MessageResultVariants
              \/ \E k \in DOMAIN ItemsAt(m, "AddressResult") :
                    Get(ItemsAt(m, "AddressResult")[k], "ErrorCode").s
                        \notin AddressResultVariants

AddressLacksRequired(a) ==
    ~HasKey(a, "EmailAddress") \/ ~HasKey(a, "Accepted") \/ ~HasKey(a, "ErrorCode")

MessageLacksRequired(m) ==
    \/ ~HasKey(m, "Index")
    \/ ~HasKey(m, "ErrorCode")
    \/ \E k \in DOMAIN ItemsAt(m, "AddressResult") :
          AddressLacksRequired(ItemsAt(m, "AddressResult")[k])

\* A required key is missing somewhere in the document.
LacksRequired(d) ==
    \/ ~HasKey(d, "ErrorCode")
    \/ \E i \in DOMAIN ItemsAt(d, "MessageResults") :
          MessageLacksRequired(ItemsAt(d, "MessageResults")[i])

\* What the decoder says of a document that it refuses for want of a key, or
\* for an error code that is no string.
RefusalDiagnostics ==
    { "missing field ErrorCode", "missing field Index",
      "missing field EmailAddress", "missing field Accepted",
      "expected comma or closing brace" }

Decoded == Unwrap(decoded)
Document == Unwrap(json)

\* C4: a response that is well formed but for error-code strings its
\* enumerations do not know decodes, at whatever level they stand, to the
\* Response it describes with UnknownErrorCode for exactly those codes: every
\* other field, the known codes among them, is as the document gives it.
C4_UnknownCodeFallsBack ==
    (IsSome(decoded) /\ WellFormedResponse(Document) /\ HasUnknownCode(Document)) =>
        Decoded = Ok(ResponseDescribed(Document))

\* The top-level code is unknown there ("InvalidAddress" is an address code),
\* the message's code is known, and an address of the message has an unknown
\* code: the decode succeeded, with the fallback at the first and the last.
C4_Witness ==
    /\ IsSome(decoded)
    /\ Decoded.ok
    /\ Get(Document, "ErrorCode").s = "InvalidAddress"
    /\ Decoded.v.error_code = UnknownErrorCode
    /\ IsSome(Decoded.v.message_results)
    /\ Len(Unwrap(Decoded.v.message_results)) = 1
    /\ Unwrap(Decoded.v.message_results)[1].error_code = "Warning"
    /\ IsSome(Unwrap(Decoded.v.message_results)[1].address_result)
    /\ \E k \in DOMAIN Unwrap(Unwrap(Decoded.v.message_results)[1].address_result) :
          Unwrap(Unwrap(Decoded.v.message_results)[1].address_result)[k].error_code
              = UnknownErrorCode

\* C5: a response that lacks a required key (ErrorCode at any level,
\* EmailAddress or Accepted of an address result, Index or ErrorCode of a
\* message result) does not decode: the result is MessageParsingError with the
\* decoder's diagnostic, never a Response with a fallback code.
C5_MissingRequiredFails ==
    (IsSome(decoded) /\ Document.t = "obj" /\ LacksRequired(Document)) =>
        /\ ~Decoded.ok
        /\ Decoded.v.kind = "MessageParsingError"
        /\ Decoded.v.detail \in RefusalDiagnostics
        /\ (~HasKey(Document, "ErrorCode") /\ NullOrAbsent(Document, "MessageResults"))
              => Decoded.v.detail = "missing field ErrorCode"

\* The only key missing is the ErrorCode of an address result, and the
\* decode has failed for it.
C5_Witness ==
    /\ IsSome(decoded)
    /\ HasOfType(Document, "ErrorCode", "str")
    /\ Len(ItemsAt(Document, "MessageResults")) = 1
    /\ LET m == ItemsAt(Document, "MessageResults")[1]
       IN  /\ HasKey(m, "Index") /\ HasKey(m, "ErrorCode")
           /\ Len(ItemsAt(m, "AddressResult")) = 1
           /\ LET a == ItemsAt(m, "AddressResult")[1]
              IN  HasKey(a, "EmailAddress") /\ HasKey(a, "Accepted")
                  /\ ~HasKey(a, "ErrorCode")
    /\ Decoded = Err([kind |-> "MessageParsingError",
                      detail |-> "missing field ErrorCode"])

\* C10: a well-formed response decodes; TransactionReceipt, MessageResults
\* and a message's AddressResult, when null or absent, decode to an absent
\* field; an error-code string that its enumeration knows decodes to the
\* variant of that name.
C10_OptionalAbsentAndKnownCodes ==
    (IsSome(decoded) /\ WellFormedResponse(Document)) =>
        /\ Decoded.ok
        /\ NullOrAbsent(Document, "TransactionReceipt")
              => IsNone(Decoded.v.transaction_receipt)
        /\ NullOrAbsent(Document, "MessageResults")
              => IsNone(Decoded.v.message_results)
        /\ Get(Document, "ErrorCode").s \in PostMessageVariants
              => Decoded.v.error_code = Get(Document, "ErrorCode").s
        /\ \A i \in DOMAIN ItemsAt(Document, "MessageResults") :
              LET m == ItemsAt(Document, "MessageResults")[i]
                  r == Unwrap(Decoded.v.message_results)[i]
              IN  /\ NullOrAbsent(m, "AddressResult") => IsNone(r.address_result)
                  /\ Get(m, "ErrorCode").s \in MessageResultVariants
                        => r.error_code = Get(m, "ErrorCode").s
                  /\ \A k \in DOMAIN ItemsAt(m, "AddressResult") :
                        LET a == ItemsAt(m, "AddressResult")[k]
                        IN  Get(a, "ErrorCode").s \in AddressResultVariants
                              => Unwrap(r.address_result)[k].error_code
                                    = Get(a, "ErrorCode").s

\* {"ErrorCode":"Success","TransactionReceipt":null,"MessageResults":null}
\* has decoded to Success with no receipt and no message results.
C10_Witness ==
    /\ Document = JObj(<< <<"ErrorCode", JStr("Success")>>,
                          <<"TransactionReceipt", JNull>>,
                          <<"MessageResults", JNull>> >>)
    /\ IsSome(decoded)
    /\ Decoded = Ok([error_code |-> "Success",
                     transaction_receipt |-> None,
                     message_results |-> None])

====
